---- MODULE Spec2Model ----
(***************************************************************************)
(* Model of src/telegram_WC_Bot.py (WorldcoinTelegramBot).                 *)
(*                                                                         *)
(* Threads: one poll thread running continuous_price_check and NumThreads  *)
(* TeleBot worker threads running the command handlers.  No lock is taken  *)
(* anywhere in the source, so every access to the shared dict / lists is   *)
(* one atomic step (the interpreter lock makes a single dict or list       *)
(* operation atomic) and threads interleave between those steps; a step    *)
(* that blocks on the network (price fetch, send_message, reply_to) is     *)
(* merged with the thread-local code around it.                            *)
(*                                                                         *)
(* Prices are decimals; they are represented in units of 1/Scale dollar,   *)
(* so that int(price) (truncation) is price \div Scale and differs from    *)
(* the raw price.                                                          *)
(***************************************************************************)
EXTENDS Integers, Sequences, FiniteSets, TLC

\* ---------------------------------------------------------------- bounds
MaxTicks == 2
MaxCmds == 2
MaxCmdsOnly == 3
MaxHistTicks == 27

\* ------------------------------------------------------ program constants
NumThreads == 2
HistoryCap == 24
None == -1
\* float('nan'), the value that is neither <= 0 nor > 0
NaN == -9

\* ------------------------------------------------------------ value sets
Scale == 2
Users == {"u1", "u2"}
NoUser == "none"
Prices == {3, 5}
Quotes == Prices \cup {None}
Targets == {5}
Workers == 1..NumThreads

NoArg == [kind |-> "none", val |-> 0]
Args ==
  {[kind |-> "missing", val |-> 0], [kind |-> "text", val |-> 0]}
    \cup {[kind |-> "num", val |-> v] : v \in {-2, 0} \cup Targets}
ValidArgs == {a \in Args : a.kind = "num" /\ a.val > 0}
\* two different well-formed targets, so that two alerts of one user differ
OrderTargets == {3, 5}
OrderArgs == {[kind |-> "num", val |-> v] : v \in OrderTargets}
\* every argument: float() also parses the text "nan"
AlertArgs == Args \cup {[kind |-> "nan", val |-> NaN]}
\* what the feed may quote to the poll loop while the history is queried: no
\* price, a price of 0, 1.5 or 2.5
HistoryQuotes == {None, 0} \cup Prices

VARIABLES
  tracking_users,   \* the dict, as the sequence of its items in insertion order
  heap,             \* the record objects the dict values point to
  price_history,    \* self.price_history
  poll,             \* position and locals of continuous_price_check
  worker,           \* position and locals of each TeleBot worker thread
  ticks,            \* number of ticks begun
  cmds,             \* number of commands dispatched
  fetched,          \* every price the poll loop fetched successfully, in order
  due,              \* messages the current tick decided to send
  sent,             \* send_message calls of the current tick, with outcome
  last_tick         \* how the last finished tick ended

vars ==
  <<tracking_users, heap, price_history, poll, worker, ticks, cmds,
    fetched, due, sent, last_tick>>

\* --------------------------------------------------------------- helpers
\* int() forgotten
TruncIntRaw(p) == p

\* int(price): truncation of a non-negative decimal
TruncInt(p) == p \div Scale

Has(u) == \E i \in 1..Len(tracking_users) : tracking_users[i].uid = u

IndexOf(u) == CHOOSE i \in 1..Len(tracking_users) : tracking_users[i].uid = u

RecOf(u) == tracking_users[IndexOf(u)].rec

\* self.tracking_users[u] = <new dict>: a present key keeps its position
DictStore(u, r) ==
  IF Has(u)
    THEN [tracking_users EXCEPT ![IndexOf(u)] = [uid |-> u, rec |-> r]]
    ELSE Append(tracking_users, [uid |-> u, rec |-> r])

\* del self.tracking_users[u]
DictDel(u) == SelectSeq(tracking_users, LAMBDA it : it.uid # u)

NewRecord(p) == [tracking |-> TRUE, last_notification_price |-> TruncInt(p), alerts |-> <<>>]

NewAlert(t) == [target |-> t, triggered |-> FALSE, emitted |-> 0]

Alerts(u) == heap[RecOf(u)].alerts

\* the locals of get_price_stats before any of them is assigned
NoStats == [current |-> None, high |-> None, low |-> None, sum |-> None, count |-> 0]

IdleWorker ==
  [pc |-> "idle", cmd |-> "none", user |-> NoUser, arg |-> NoArg,
   price |-> None, fetched |-> "no", ret |-> "none", raised |-> "none",
   replies |-> <<>>, last_price |-> None, stats |-> NoStats]

IdlePoll ==
  [pc |-> "fetch", current_price |-> None, items |-> <<>>,
   user_id |-> NoUser, user_data |-> 0, alert_messages |-> <<>>]

\* bot.reply_to(message, text): recorded with its outcome
Reply(w, kind, ok) ==
  [w EXCEPT !.replies = Append(@, [kind |-> kind, ok |-> ok])]

Done(w) == [w EXCEPT !.pc = "done"]

Begin(h) ==
  /\ worker[h].pc = "idle"
  /\ cmds' = cmds + 1

Start(c, u) == [IdleWorker EXCEPT !.cmd = c, !.user = u]

Init ==
  /\ tracking_users = <<>>
  /\ heap = <<>>
  /\ price_history = <<>>
  /\ poll = IdlePoll
  /\ worker = [h \in Workers |-> IdleWorker]
  /\ ticks = 0
  /\ cmds = 0
  /\ fetched = <<>>
  /\ due = <<>>
  /\ sent = <<>>
  /\ last_tick = "none"

\* ============================================================ poll loop
PollFrame == UNCHANGED <<worker, cmds>>

\* the test of line 187 left out: the tick goes on without a price
FetchFailedPcGoOn == "append"
\* line 187: `if current_price is not None` is false, on to line 217
FetchFailedPc == "sleep"

\* line 185: current_price = self.get_worldcoin_price()
PollFetch(q) ==
  /\ poll.pc = "fetch"
  /\ ticks' = ticks + 1
  /\ IF q = None
       THEN /\ poll' = [IdlePoll EXCEPT !.pc = FetchFailedPc]
            /\ fetched' = fetched
       ELSE /\ poll' = [IdlePoll EXCEPT !.pc = "append", !.current_price = q]
            /\ fetched' = Append(fetched, q)
  /\ UNCHANGED <<tracking_users, heap, price_history, due, sent>>
  /\ last_tick' = last_tick
  /\ PollFrame

\* line 189: self.price_history.append(float(current_price))
PollAppend ==
  /\ poll.pc = "append"
  /\ price_history' = Append(price_history, poll.current_price)
  /\ poll' = [poll EXCEPT !.pc = "trim"]
  /\ UNCHANGED <<tracking_users, heap, ticks, fetched, due, sent>>
  /\ last_tick' = last_tick
  /\ PollFrame

\* the newest sample evicted instead of the oldest
TrimNewest(hist) == IF Len(hist) > HistoryCap THEN SubSeq(hist, 1, Len(hist) - 1) ELSE hist
\* lines 190-191: if len(self.price_history) > 24: self.price_history.pop(0)
Trim(hist) == IF Len(hist) > HistoryCap THEN Tail(hist) ELSE hist

PollTrim ==
  /\ poll.pc = "trim"
  /\ price_history' = Trim(price_history)
  /\ poll' = [poll EXCEPT !.pc = "snapshot"]
  /\ UNCHANGED <<tracking_users, heap, ticks, fetched, due, sent>>
  /\ last_tick' = last_tick
  /\ PollFrame

\* line 194: list(self.tracking_users.items())
PollSnapshot ==
  /\ poll.pc = "snapshot"
  /\ poll' = [poll EXCEPT !.pc = "user", !.items = tracking_users]
  /\ UNCHANGED <<tracking_users, heap, price_history, ticks, fetched, due, sent>>
  /\ last_tick' = last_tick
  /\ PollFrame

IncreaseMsg(u, p) == [to |-> u, kind |-> "increase", price |-> p, target |-> 0]
TargetMsg(u, p, t) == [to |-> u, kind |-> "target", price |-> p, target |-> t]

\* lines 194-197: next item of the snapshot, its tracking flag and the
\* threshold test int(current_price) > user_data['last_notification_price']
PollUser ==
  /\ poll.pc = "user"
  /\ IF poll.items = <<>>
       THEN /\ poll' = [poll EXCEPT !.pc = "sleep", !.user_id = NoUser, !.user_data = 0]
            /\ due' = due
       ELSE LET it == Head(poll.items)
                rec == heap[it.rec]
                p == [poll EXCEPT !.items = Tail(@), !.user_id = it.uid,
                                  !.user_data = it.rec]
            IN IF ~rec.tracking
                 THEN /\ poll' = p
                      /\ due' = due
                 ELSE IF TruncInt(poll.current_price) > rec.last_notification_price
                        THEN /\ poll' = [p EXCEPT !.pc = "send_increase"]
                             /\ due' = Append(due, IncreaseMsg(it.uid, poll.current_price))
                        ELSE /\ poll' = [p EXCEPT !.pc = "alerts_in"]
                             /\ due' = due
  /\ UNCHANGED <<tracking_users, heap, price_history, ticks, fetched, sent>>
  /\ last_tick' = last_tick
  /\ PollFrame

\* lines 198-207: send_message, then the update of last_notification_price;
\* a failing send raises before the update and is caught at line 206
AfterIncrease(ok) ==
  IF ok
    THEN [heap EXCEPT ![poll.user_data].last_notification_price = TruncInt(poll.current_price)]
    ELSE heap

\* the send not wrapped in try/except: a failure reaches line 219
IncreaseFailPcAbort(ok) == IF ok THEN "alerts_in" ELSE "except"
\* lines 206-210: after the except clause the alerts are checked all the same
IncreaseNextPc(ok) == "alerts_in"

PollSendIncrease(ok) ==
  /\ poll.pc = "send_increase"
  /\ sent' = Append(sent, [msg |-> IncreaseMsg(poll.user_id, poll.current_price), ok |-> ok])
  /\ heap' = AfterIncrease(ok)
  /\ poll' = [poll EXCEPT !.pc = IncreaseNextPc(ok)]
  /\ UNCHANGED <<tracking_users, price_history, ticks, fetched, due>>
  /\ last_tick' = last_tick
  /\ PollFrame

\* lines 104-105: if user_id not in self.tracking_users: return []
PollAlertsIn ==
  /\ poll.pc = "alerts_in"
  /\ poll' = [poll EXCEPT !.pc = IF Has(poll.user_id) THEN "alerts_get" ELSE "user"]
  /\ UNCHANGED <<tracking_users, heap, price_history, ticks, fetched, due, sent>>
  /\ last_tick' = last_tick
  /\ PollFrame

\* lines 111-112; a comparison with nan is false
Fires(a, p) == ~a.triggered /\ a.target # NaN /\ p >= a.target

\* the triggered flag never set
MarkNever(a, p) == IF Fires(a, p) THEN [a EXCEPT !.emitted = @ + 1] ELSE a
\* lines 113-117: the message is appended and the alert marked triggered
Mark(a, p) ==
  IF Fires(a, p) THEN [a EXCEPT !.triggered = TRUE, !.emitted = @ + 1] ELSE a

\* one message for the whole list, whatever the number of alerts that fire
AlertMessagesFirstOnly(u, as, p) ==
  IF \E i \in 1..Len(as) : Fires(as[i], p)
    THEN <<TargetMsg(u, p, as[CHOOSE i \in 1..Len(as) : Fires(as[i], p)].target)>>
    ELSE <<>>

\* lines 107-119: the messages check_price_alerts returns, in list order
RECURSIVE AlertMessages(_, _, _)
AlertMessages(u, as, p) ==
  IF as = <<>>
    THEN <<>>
    ELSE LET rest == AlertMessages(u, Tail(as), p)
         IN IF Fires(Head(as), p)
              THEN <<TargetMsg(u, p, Head(as).target)>> \o rest
              ELSE rest

\* lines 108-119 and 210: self.tracking_users[user_id] (KeyError when the
\* record was removed since line 104), then the loop over its alerts
PollAlertsGet ==
  /\ poll.pc = "alerts_get"
  /\ IF ~Has(poll.user_id)
       THEN /\ poll' = [poll EXCEPT !.pc = "except"]
            /\ UNCHANGED <<heap, due>>
       ELSE LET r == RecOf(poll.user_id)
                msgs == AlertMessages(poll.user_id, heap[r].alerts, poll.current_price)
            IN /\ heap' = [heap EXCEPT ![r].alerts =
                             [i \in 1..Len(@) |-> Mark(@[i], poll.current_price)]]
               /\ due' = due \o msgs
               /\ poll' = [poll EXCEPT !.alert_messages = msgs,
                                       !.pc = IF msgs = <<>> THEN "user" ELSE "send_alert"]
  /\ UNCHANGED <<tracking_users, price_history, ticks, fetched, sent>>
  /\ last_tick' = last_tick
  /\ PollFrame

\* lines 211-215: the for loop goes on to the next message after a failure
RestAfterSend(ok) == Tail(poll.alert_messages)

PollSendAlert(ok) ==
  /\ poll.pc = "send_alert"
  /\ sent' = Append(sent, [msg |-> Head(poll.alert_messages), ok |-> ok])
  /\ LET rest == RestAfterSend(ok)
     IN poll' = [poll EXCEPT !.alert_messages = rest,
                             !.pc = IF rest = <<>> THEN "user" ELSE "send_alert"]
  /\ UNCHANGED <<tracking_users, heap, price_history, ticks, fetched, due>>
  /\ last_tick' = last_tick
  /\ PollFrame

\* line 217: time.sleep(self.price_check_interval), back to `while True`
TickOutcome ==
  IF poll.current_price = None
    THEN "fetch_failed"
    ELSE IF \E i \in 1..Len(sent) : ~sent[i].ok THEN "send_failed" ELSE "ok"

PollSleep ==
  /\ poll.pc = "sleep"
  /\ poll' = IdlePoll
  /\ last_tick' = TickOutcome
  /\ due' = <<>>
  /\ sent' = <<>>
  /\ UNCHANGED <<tracking_users, heap, price_history, ticks, fetched>>
  /\ PollFrame

\* no except clause: the exception ends the thread
ExceptNextPcDead == "dead"
\* line 221, then line 183
ExceptNextPc == "fetch"

\* lines 219-221: except Exception: log, sleep, back to `while True`
PollExcept ==
  /\ poll.pc = "except"
  /\ poll' = [IdlePoll EXCEPT !.pc = ExceptNextPc]
  /\ last_tick' = "error"
  /\ due' = <<>>
  /\ sent' = <<>>
  /\ UNCHANGED <<tracking_users, heap, price_history, ticks, fetched>>
  /\ PollFrame

\* ======================================================= command handlers
WorkerFrame == UNCHANGED <<poll, ticks, fetched, due, sent, price_history, last_tick>>

\* lines 227-245: /start
send_welcome(h, ok) ==
  /\ Begin(h)
  /\ worker' = [worker EXCEPT ![h] = Done(Reply(Start("start", NoUser), "welcome", ok))]
  /\ UNCHANGED <<tracking_users, heap>>
  /\ WorkerFrame

\* lines 248-251 and 148-153, 162: /track enters start_price_tracking; the
\* membership test, and for an absent user the initial fetch
TrackBegin(h, u, q) ==
  /\ Begin(h)
  /\ LET w == Start("track", u)
     IN worker' = [worker EXCEPT ![h] =
          IF Has(u)
            THEN [w EXCEPT !.pc = "track_else", !.ret = "False"]
            ELSE IF q = None
                   THEN [w EXCEPT !.pc = "track_else", !.ret = "False", !.fetched = "failed"]
                   ELSE [w EXCEPT !.pc = "track_insert", !.price = q, !.fetched = "ok"]]
  /\ UNCHANGED <<tracking_users, heap>>
  /\ WorkerFrame

\* lines 155-159: self.tracking_users[user_id] = {...}
TrackStore(u) == DictStore(u, Len(heap) + 1)

\* lines 155-161 and 252: the record is stored, start_price_tracking returns
\* True and the handler replies
TrackInsert(h, ok) ==
  /\ worker[h].pc = "track_insert"
  /\ heap' = Append(heap, NewRecord(worker[h].price))
  /\ tracking_users' = TrackStore(worker[h].user)
  /\ LET w == Reply([worker[h] EXCEPT !.ret = "True"], "started", ok)
     IN worker' = [worker EXCEPT ![h] =
          IF ok THEN Done(w) ELSE [w EXCEPT !.pc = "track_except"]]
  /\ UNCHANGED cmds
  /\ WorkerFrame

\* lines 253-258: the handler's second fetch chooses the reply
TrackElse(h, q, ok) ==
  /\ worker[h].pc = "track_else"
  /\ LET w == Reply(worker[h], IF q = None THEN "could_not_start" ELSE "already", ok)
     IN worker' = [worker EXCEPT ![h] =
          IF ok THEN Done(w) ELSE [w EXCEPT !.pc = "track_except"]]
  /\ UNCHANGED <<tracking_users, heap, cmds>>
  /\ WorkerFrame

\* lines 259-261: a failed reply is answered with a second reply
TrackExcept(h, ok) ==
  /\ worker[h].pc = "track_except"
  /\ LET w == Reply(worker[h], "error", ok)
     IN worker' = [worker EXCEPT ![h] =
          Done(IF ok THEN w ELSE [w EXCEPT !.raised = "reply"])]
  /\ UNCHANGED <<tracking_users, heap, cmds>>
  /\ WorkerFrame

\* lines 264-269 and 173, 177: /stop enters stop_price_tracking
StopBegin(h, u, ok) ==
  /\ Begin(h)
  /\ LET w == Start("stop", u)
     IN worker' = [worker EXCEPT ![h] =
          IF Has(u)
            THEN [w EXCEPT !.pc = "stop_flag"]
            ELSE Done(Reply([w EXCEPT !.ret = "False"], "not_tracking", ok))]
  /\ UNCHANGED <<tracking_users, heap>>
  /\ WorkerFrame

\* line 174: self.tracking_users[user_id]['tracking'] = False
StopFlag(h) ==
  /\ worker[h].pc = "stop_flag"
  /\ IF Has(worker[h].user)
       THEN /\ heap' = [heap EXCEPT ![RecOf(worker[h].user)].tracking = FALSE]
            /\ worker' = [worker EXCEPT ![h].pc = "stop_del"]
       ELSE /\ heap' = heap
            /\ worker' = [worker EXCEPT ![h] = Done([@ EXCEPT !.raised = "KeyError"])]
  /\ UNCHANGED <<tracking_users, cmds>>
  /\ WorkerFrame

\* the record kept, only its flag cleared
StopDelFlagOnly(u) == tracking_users
\* line 175
StopDelete(u) == DictDel(u)

\* lines 175-176 and 267: del self.tracking_users[user_id]; return True
StopDel(h, ok) ==
  /\ worker[h].pc = "stop_del"
  /\ IF Has(worker[h].user)
       THEN /\ tracking_users' = StopDelete(worker[h].user)
            /\ worker' = [worker EXCEPT ![h] =
                 Done(Reply([@ EXCEPT !.ret = "True"], "stopped", ok))]
       ELSE /\ tracking_users' = tracking_users
            /\ worker' = [worker EXCEPT ![h] = Done([@ EXCEPT !.raised = "KeyError"])]
  /\ UNCHANGED <<heap, cmds>>
  /\ WorkerFrame

\* lines 271-277: /price
current_price(h, q, ok) ==
  /\ Begin(h)
  /\ worker' = [worker EXCEPT ![h] =
       Done(Reply([Start("price", NoUser) EXCEPT !.price = q],
                  IF q # None /\ q # 0 THEN "price" ELSE "unable", ok))]
  /\ UNCHANGED <<tracking_users, heap>>
  /\ WorkerFrame

\* lines 280-293 and 88-91: /setalert parses its argument and enters
\* set_price_alert; for an absent user the record literal is evaluated
\* first, and int(None) raises TypeError when the fetch failed; for the
\* argument nan float() succeeds and `target_price <= 0` is false
SetAlertBegin(h, u, a, q, ok) ==
  /\ Begin(h)
  /\ LET w == [Start("setalert", u) EXCEPT !.arg = a]
     IN worker' = [worker EXCEPT ![h] =
          CASE a.kind = "missing" -> Done(Reply(w, "usage", ok))
            [] a.kind = "text" -> Done(Reply(w, "invalid", ok))
            [] a.kind = "num" /\ a.val <= 0 -> Done(Reply(w, "positive", ok))
            [] OTHER ->
                 IF Has(u)
                   THEN [w EXCEPT !.pc = "alert_append"]
                   ELSE IF q = None
                          THEN Done([w EXCEPT !.raised = "TypeError", !.fetched = "failed"])
                          ELSE [w EXCEPT !.pc = "alert_insert", !.price = q,
                                         !.fetched = "ok"]]
  /\ UNCHANGED <<tracking_users, heap>>
  /\ WorkerFrame

\* lines 89-93: self.tracking_users[user_id] = {...}
AlertInsert(h) ==
  /\ worker[h].pc = "alert_insert"
  /\ heap' = Append(heap, NewRecord(worker[h].price))
  /\ tracking_users' = DictStore(worker[h].user, Len(heap) + 1)
  /\ worker' = [worker EXCEPT ![h].pc = "alert_append"]
  /\ UNCHANGED cmds
  /\ WorkerFrame

\* lines 95-98 and 294-297: self.tracking_users[user_id]['alerts'].append(...)
\* (KeyError when the record is gone), then the confirmation reply
AlertAppend(h, ok) ==
  /\ worker[h].pc = "alert_append"
  /\ IF Has(worker[h].user)
       THEN /\ heap' = [heap EXCEPT ![RecOf(worker[h].user)].alerts =
                          Append(@, NewAlert(worker[h].arg.val))]
            /\ worker' = [worker EXCEPT ![h] =
                 Done(Reply([@ EXCEPT !.ret = "None"], "alert_set", ok))]
       ELSE /\ heap' = heap
            /\ worker' = [worker EXCEPT ![h] = Done([@ EXCEPT !.raised = "KeyError"])]
  /\ UNCHANGED <<tracking_users, cmds>>
  /\ WorkerFrame

\* lines 304-309: /alerts, first operand of the `or`
ListBegin(h, u, ok) ==
  /\ Begin(h)
  /\ LET w == Start("alerts", u)
     IN worker' = [worker EXCEPT ![h] =
          IF Has(u) THEN [w EXCEPT !.pc = "list_empty"]
                    ELSE Done(Reply(w, "no_alerts", ok))]
  /\ UNCHANGED <<tracking_users, heap>>
  /\ WorkerFrame

\* lines 307-309: second operand, not self.tracking_users[user_id]['alerts']
ListEmpty(h, ok) ==
  /\ worker[h].pc = "list_empty"
  /\ worker' = [worker EXCEPT ![h] =
       IF ~Has(@.user)
         THEN Done([@ EXCEPT !.raised = "KeyError"])
         ELSE IF Alerts(@.user) = <<>>
                THEN Done(Reply(@, "no_alerts", ok))
                ELSE [@ EXCEPT !.pc = "list_enum"]]
  /\ UNCHANGED <<tracking_users, heap, cmds>>
  /\ WorkerFrame

\* lines 311-316: the enumeration and the reply
ListEnum(h, ok) ==
  /\ worker[h].pc = "list_enum"
  /\ worker' = [worker EXCEPT ![h] =
       IF ~Has(@.user)
         THEN Done([@ EXCEPT !.raised = "KeyError"])
         ELSE Done(Reply(@, "alerts_list", ok))]
  /\ UNCHANGED <<tracking_users, heap, cmds>>
  /\ WorkerFrame

\* lines 71-82: change = ((last_price - prev_price) / prev_price) * 100 and
\* the chain of comparisons, for prev_price # 0; the quotient is compared as
\* the exact rational it stands for
TrendOf(last, prev) ==
  LET sgn == IF prev > 0 THEN 1 ELSE -1
      num == (last - prev) * 100 * sgn
      den == prev * sgn
  IN IF num > 5 * den THEN "strong_up"
     ELSE IF num > 0 THEN "slight_up"
     ELSE IF num < (-5) * den THEN "strong_down"
     ELSE IF num < 0 THEN "slight_down"
     ELSE "stable"

\* lines 320-324 and 66-67: /trend enters get_price_trend, which tests
\* len(self.price_history) < 2
show_trend(h, ok) ==
  /\ Begin(h)
  /\ LET w == Start("trend", NoUser)
     IN worker' = [worker EXCEPT ![h] =
          IF Len(price_history) < 2
            THEN Done(Reply([w EXCEPT !.ret = "insufficient"], "trend", ok))
            ELSE [w EXCEPT !.pc = "trend_last"]]
  /\ UNCHANGED <<tracking_users, heap>>
  /\ WorkerFrame

\* line 69: last_price = self.price_history[-1]
TrendLast(h) ==
  /\ worker[h].pc = "trend_last"
  /\ worker' = [worker EXCEPT ![h].last_price = price_history[Len(price_history)],
                              ![h].pc = "trend_prev"]
  /\ UNCHANGED <<tracking_users, heap, cmds>>
  /\ WorkerFrame

\* lines 70-82 and 324-326: prev_price = self.price_history[0], the division
\* (ZeroDivisionError for a float divisor of 0.0, logged at line 326 without
\* a reply), the label and the reply
TrendPrev(h, ok) ==
  /\ worker[h].pc = "trend_prev"
  /\ LET prev == price_history[1]
     IN worker' = [worker EXCEPT ![h] =
          IF prev = 0
            THEN Done([@ EXCEPT !.raised = "ZeroDivisionError"])
            ELSE Done(Reply([@ EXCEPT !.ret = TrendOf(worker[h].last_price, prev)], "trend", ok))]
  /\ UNCHANGED <<tracking_users, heap, cmds>>
  /\ WorkerFrame

\* max(self.price_history), min(self.price_history), sum(self.price_history)
Max(hist) == CHOOSE x \in {hist[i] : i \in 1..Len(hist)} : \A i \in 1..Len(hist) : hist[i] <= x

Min(hist) == CHOOSE x \in {hist[i] : i \in 1..Len(hist)} : \A i \in 1..Len(hist) : hist[i] >= x

RECURSIVE Sum(_)
Sum(hist) == IF hist = <<>> THEN 0 ELSE Head(hist) + Sum(Tail(hist))

\* lines 328-332 and 125-126: /stats enters get_price_stats, which tests
\* `not self.price_history`
show_stats(h, ok) ==
  /\ Begin(h)
  /\ LET w == Start("stats", NoUser)
     IN worker' = [worker EXCEPT ![h] =
          IF price_history = <<>>
            THEN Done(Reply([w EXCEPT !.ret = "no_data"], "stats", ok))
            ELSE [w EXCEPT !.pc = "stats_current"]]
  /\ UNCHANGED <<tracking_users, heap>>
  /\ WorkerFrame

\* line 128: current = self.price_history[-1]
StatsCurrent(h) ==
  /\ worker[h].pc = "stats_current"
  /\ worker' = [worker EXCEPT ![h].stats.current = price_history[Len(price_history)],
                              ![h].pc = "stats_high"]
  /\ UNCHANGED <<tracking_users, heap, cmds>>
  /\ WorkerFrame

\* line 129: high = max(self.price_history)
StatsHigh(h) ==
  /\ worker[h].pc = "stats_high"
  /\ worker' = [worker EXCEPT ![h].stats.high = Max(price_history),
                              ![h].pc = "stats_low"]
  /\ UNCHANGED <<tracking_users, heap, cmds>>
  /\ WorkerFrame

\* line 130: low = min(self.price_history)
StatsLow(h) ==
  /\ worker[h].pc = "stats_low"
  /\ worker' = [worker EXCEPT ![h].stats.low = Min(price_history),
                              ![h].pc = "stats_sum"]
  /\ UNCHANGED <<tracking_users, heap, cmds>>
  /\ WorkerFrame

\* line 131, left operand: sum(self.price_history)
StatsSum(h) ==
  /\ worker[h].pc = "stats_sum"
  /\ worker' = [worker EXCEPT ![h].stats.sum = Sum(price_history),
                              ![h].pc = "stats_len"]
  /\ UNCHANGED <<tracking_users, heap, cmds>>
  /\ WorkerFrame

\* lines 131-139 and 332: right operand len(self.price_history), the
\* quotient avg = sum / count (kept as the pair), the text and the reply
StatsLen(h, ok) ==
  /\ worker[h].pc = "stats_len"
  /\ worker' = [worker EXCEPT ![h] =
       Done(Reply([@ EXCEPT !.stats.count = Len(price_history), !.ret = "stats"],
                  "stats", ok))]
  /\ UNCHANGED <<tracking_users, heap, cmds>>
  /\ WorkerFrame

\* the handler function returns and the worker thread takes the next update
Return(h) ==
  /\ worker[h].pc = "done"
  /\ worker' = [worker EXCEPT ![h] = IdleWorker]
  /\ UNCHANGED <<tracking_users, heap, cmds>>
  /\ WorkerFrame

\* ======================================================== specifications
\* one step of the poll thread; at most n ticks are begun
PollStep(n, quotes) ==
  \/ (ticks < n /\ \E q \in quotes : PollFetch(q))
  \/ PollAppend
  \/ PollTrim
  \/ PollSnapshot
  \/ PollUser
  \/ \E ok \in BOOLEAN : PollSendIncrease(ok)
  \/ PollAlertsIn
  \/ PollAlertsGet
  \/ \E ok \in BOOLEAN : PollSendAlert(ok)
  \/ PollSleep
  \/ PollExcept

\* /track and /stop on worker h; at most n commands are dispatched
TrackStopStep(h, n, oks) ==
  \/ (cmds < n /\ \E u \in Users, q \in Quotes : TrackBegin(h, u, q))
  \/ \E ok \in oks : TrackInsert(h, ok)
  \/ \E q \in Quotes, ok \in oks : TrackElse(h, q, ok)
  \/ (cmds < n /\ \E u \in Users, ok \in oks : StopBegin(h, u, ok))
  \/ StopFlag(h)
  \/ \E ok \in oks : StopDel(h, ok)
  \/ Return(h)

\* /setalert on worker h
SetAlertStep(h, n, args, oks) ==
  \/ (cmds < n /\ \E u \in Users, a \in args, q \in Quotes, ok \in oks :
                    SetAlertBegin(h, u, a, q, ok))
  \/ AlertInsert(h)
  \/ \E ok \in oks : AlertAppend(h, ok)

\* the commands that only read, and the reply to a failed reply
QueryStep(h, n) ==
  \/ (cmds < n /\ \E ok \in BOOLEAN : send_welcome(h, ok))
  \/ (cmds < n /\ \E q \in Quotes, ok \in BOOLEAN : current_price(h, q, ok))
  \/ (cmds < n /\ \E u \in Users, ok \in BOOLEAN : ListBegin(h, u, ok))
  \/ \E ok \in BOOLEAN : ListEmpty(h, ok)
  \/ \E ok \in BOOLEAN : ListEnum(h, ok)
  \/ (cmds < n /\ \E ok \in BOOLEAN : show_trend(h, ok))
  \/ (cmds < n /\ \E ok \in BOOLEAN : show_stats(h, ok))
  \/ \E ok \in BOOLEAN : TrackExcept(h, ok)

\* The engine: the poll loop and the commands that change the registry, on
\* both worker threads, every reply delivered.
Next ==
  \/ PollStep(MaxTicks, Quotes)
  \/ \E h \in Workers : (TrackStopStep(h, MaxCmds, {TRUE}) \/ SetAlertStep(h, MaxCmds, Args, {TRUE}))

Spec == Init /\ [][Next]_vars

\* The command handlers: all eight commands on both worker threads, replies
\* may fail, while the poll thread is between two ticks.
NextCmd ==
  \E h \in Workers :
    \/ TrackStopStep(h, MaxCmdsOnly, BOOLEAN)
    \/ SetAlertStep(h, MaxCmdsOnly, Args, BOOLEAN)
    \/ QueryStep(h, MaxCmdsOnly)

SpecCmd == Init /\ [][NextCmd]_vars

\* The price history over many ticks: the poll loop alone, the feed quoting
\* a different price at every successful fetch.
FeedQuote == 10 * Scale + Len(fetched)

NextHist ==
  \/ (ticks < MaxHistTicks /\ \E q \in {None, FeedQuote} : PollFetch(q))
  \/ PollAppend
  \/ PollTrim
  \/ PollSnapshot
  \/ PollUser
  \/ PollSleep

SpecHist == Init /\ [][NextHist]_vars

\* The engine with the commands that change the registry arriving one at a
\* time (one worker busy), every /setalert well-formed.
NextOne ==
  \/ PollStep(MaxTicks, Quotes)
  \/ TrackStopStep(1, MaxCmds, {TRUE})
  \/ SetAlertStep(1, MaxCmds, ValidArgs, {TRUE})

SpecOne == Init /\ [][NextOne]_vars

\* The same under fair scheduling of the poll thread.
SpecLive == SpecOne /\ WF_vars(PollStep(MaxTicks, Quotes))

\* The engine with two different targets on offer, commands arriving one at
\* a time and every fetch of the poll loop successful: two alerts of one user
\* can be told apart in the messages.
NextOrder ==
  \/ PollStep(MaxTicks, Prices)
  \/ TrackStopStep(1, MaxCmds, {TRUE})
  \/ SetAlertStep(1, MaxCmds, OrderArgs, {TRUE})

SpecOrder == Init /\ [][NextOrder]_vars

\* The history and its readers: the poll loop with nobody registered, the
\* feed quoting no price, 0, 1.5 or 2.5, and /trend and /stats on both worker
\* threads, every reply delivered.
NextQuery ==
  \/ (ticks < MaxTicks /\ \E q \in HistoryQuotes : PollFetch(q))
  \/ PollAppend
  \/ PollTrim
  \/ PollSnapshot
  \/ PollUser
  \/ PollSleep
  \/ \E h \in Workers :
       \/ (cmds < MaxCmds /\ show_trend(h, TRUE))
       \/ TrendLast(h)
       \/ TrendPrev(h, TRUE)
       \/ (cmds < MaxCmds /\ show_stats(h, TRUE))
       \/ StatsCurrent(h)
       \/ StatsHigh(h)
       \/ StatsLow(h)
       \/ StatsSum(h)
       \/ StatsLen(h, TRUE)
       \/ Return(h)

SpecQuery == Init /\ [][NextQuery]_vars

\* The registry under /track, /stop and /setalert with every kind of
\* argument, on both worker threads, the poll thread between two ticks.
NextAlert ==
  \E h \in Workers :
    \/ TrackStopStep(h, MaxCmds, {TRUE})
    \/ SetAlertStep(h, MaxCmds, AlertArgs, {TRUE})

SpecAlert == Init /\ [][NextAlert]_vars

\* ================================================================ claims
SentMsgs == [i \in 1..Len(sent) |-> sent[i].msg]

LastN(seq, n) == IF Len(seq) <= n THEN seq ELSE SubSeq(seq, Len(seq) - n + 1, Len(seq))

\* worker h takes a step
Steps(h) == worker'[h] # worker[h]

\* worker h is dispatched command c in this step
Dispatched(h, c) == worker[h].pc = "idle" /\ worker'[h].cmd = c

\* C1: when exactly two /setalert commands were issued, both for the same
\* user, ran in parallel on the two workers and both returned normally from
\* set_price_alert, the user's alert list holds two alerts.
C1_NoLostAlert ==
  \A u \in Users :
    (/\ cmds = 2
     /\ \A h \in Workers :
          /\ worker[h].pc = "done"
          /\ worker[h].cmd = "setalert"
          /\ worker[h].user = u
          /\ worker[h].ret = "None")
      => (Has(u) /\ Len(Alerts(u)) = 2)

\* C2: a handler invocation that has ended made exactly one reply.
C2_ExactlyOneReply ==
  \A h \in Workers : worker[h].pc = "done" => Len(worker[h].replies) = 1

\* C3: the step that sends the threshold-increase message hands exactly one
\* message to the transport and leaves last_notification_price at the
\* truncated tick price, whether or not the delivery succeeded.
C3_IncreaseSetsLastNotified ==
  [][(poll.pc = "send_increase" /\ poll'.pc # "send_increase")
       => /\ Len(sent') = Len(sent) + 1
          /\ heap'[poll.user_data].last_notification_price
               = poll.current_price \div Scale]_vars

\* C4: an alert is created untriggered; its triggered flag never reverts and
\* turns true only in an evaluation whose raw price is >= its target; every
\* evaluation triggers exactly the untriggered alerts whose target the raw
\* price has reached and emits one target message for each; so an alert has
\* emitted one message if it is triggered and none otherwise.
C4_OneShot ==
  [][/\ \A r \in DOMAIN heap' : \A i \in DOMAIN heap'[r].alerts :
          LET b == heap'[r].alerts[i]
          IN /\ b.emitted = (IF b.triggered THEN 1 ELSE 0)
             /\ IF r \in DOMAIN heap /\ i \in DOMAIN heap[r].alerts
                  THEN LET a == heap[r].alerts[i]
                       IN /\ a.triggered => b.triggered
                          /\ b.target = a.target
                          /\ (~a.triggered /\ b.triggered)
                               => /\ poll.pc = "alerts_get"
                                  /\ poll.current_price >= a.target
                  ELSE ~b.triggered
     /\ (poll.pc = "alerts_get" /\ poll'.pc # "alerts_get" /\ Has(poll.user_id))
          => LET r == RecOf(poll.user_id)
                 firing == {i \in DOMAIN heap[r].alerts :
                              /\ ~heap[r].alerts[i].triggered
                              /\ poll.current_price >= heap[r].alerts[i].target}
             IN /\ \A i \in DOMAIN heap[r].alerts :
                     heap'[r].alerts[i].triggered
                       <=> (heap[r].alerts[i].triggered \/ i \in firing)
                /\ Len(due') = Len(due) + Cardinality(firing)
                /\ \A k \in (Len(due) + 1)..Len(due') :
                     /\ due'[k].kind = "target"
                     /\ due'[k].to = poll.user_id]_vars

\* a second tick evaluated, at a price that reaches the target, an alert the
\* first tick had triggered, and emitted nothing
C4_Witness ==
  /\ ticks = 2
  /\ poll.pc = "user"
  /\ poll.user_id = "u1"
  /\ poll.current_price >= 5
  /\ due = <<>>
  /\ Has("u1")
  /\ heap[RecOf("u1")].tracking
  /\ Len(Alerts("u1")) = 1
  /\ Alerts("u1")[1].triggered
  /\ Alerts("u1")[1].emitted = 1

\* C5: start_price_tracking changes nothing and returns False for a user
\* already present and for an absent user whose fetch fails; after a
\* successful fetch it stores a record with tracking = TRUE, no alerts and
\* last_notification_price = the truncated fetched price, and returns True.
C5_StartTracking ==
  [][\A h \in Workers :
       /\ Dispatched(h, "track")
            => LET u == worker'[h].user
               IN /\ UNCHANGED <<tracking_users, heap>>
                  /\ Has(u) => (worker'[h].ret = "False" /\ worker'[h].pc = "track_else")
                  /\ (~Has(u) /\ worker'[h].fetched = "failed")
                       => (worker'[h].ret = "False" /\ worker'[h].pc = "track_else")
                  /\ (~Has(u) /\ worker'[h].fetched # "failed")
                       => (worker'[h].pc = "track_insert" /\ worker'[h].price \in Prices)
       /\ (worker[h].cmd = "track" /\ worker[h].ret = "False" /\ Steps(h))
            => UNCHANGED <<tracking_users, heap>>
       /\ (worker[h].pc = "track_insert" /\ Steps(h))
            => LET u == worker[h].user
               IN /\ worker'[h].ret = "True"
                  /\ \E i \in 1..Len(tracking_users') :
                       /\ tracking_users'[i].uid = u
                       /\ heap'[tracking_users'[i].rec]
                            = [tracking |-> TRUE,
                               last_notification_price |-> worker[h].price \div Scale,
                               alerts |-> <<>>]]_vars

\* /track returned True after fetching 1.5: the record is seeded with 1
C5_Witness ==
  \E h \in Workers :
    /\ worker[h].pc = "done"
    /\ worker[h].cmd = "track"
    /\ worker[h].ret = "True"
    /\ worker[h].price = 3
    /\ Has(worker[h].user)
    /\ heap[RecOf(worker[h].user)].last_notification_price = 1
    /\ heap[RecOf(worker[h].user)].alerts = <<>>

\* C6: a /setalert whose fresh fetch failed ends without an exception having
\* left set_price_alert.
C6_NoExceptionEscapes ==
  \A h \in Workers :
    (worker[h].cmd = "setalert" /\ worker[h].fetched = "failed")
      => worker[h].raised = "none"

C8_HistoryWindow ==
  /\ Len(price_history) <= HistoryCap + 1
  /\ poll.pc \notin {"append", "trim"}
       => /\ Len(price_history) <= HistoryCap
          /\ price_history = LastN(fetched, HistoryCap)

\* more prices than the capacity were fetched and the oldest were evicted
C8_Witness ==
  /\ poll.pc = "sleep"
  /\ Len(fetched) > HistoryCap + 1
  /\ Len(price_history) = HistoryCap
  /\ price_history[1] = fetched[Len(fetched) - HistoryCap + 1]

\* the positions of continuous_price_check
LoopPositions ==
  {"fetch", "append", "trim", "snapshot", "user", "send_increase", "alerts_in",
   "alerts_get", "send_alert", "sleep", "except"}

\* the tick that is ending failed
TickFailed ==
  \/ poll.pc = "except"
  \/ (poll.pc = "sleep" /\ TickOutcome \in {"fetch_failed", "send_failed"})

\* C9: the poll thread never leaves its loop, and a tick that ended with a
\* failed fetch, a failed delivery or an error caught at line 219 is followed
\* by the start of another tick (for every tick below the model's bound).
C9_LoopContinues ==
  /\ [](poll.pc \in LoopPositions)
  /\ \A n \in 1..(MaxTicks - 1) : (TickFailed /\ ticks = n) ~> (ticks = n + 1)

\* a tick has begun after a tick that ended in the except clause
C9_Witness == ticks = 2 /\ last_tick = "error" /\ poll.pc = "append"

\* C10: a failed send_message never takes the poll loop to its except
\* clause and never drops a pending message; whenever the loop moves on to
\* the next user or ends the tick normally, every message the tick decided
\* to send so far has been handed to send_message, in order.
C10_FailureIsolated ==
  [][/\ (Len(sent') = Len(sent) + 1 /\ ~sent'[Len(sent')].ok)
          => /\ poll'.pc \in {"alerts_in", "send_alert", "user"}
             /\ poll.pc = "send_alert"
                  => poll'.alert_messages = Tail(poll.alert_messages)
     /\ poll'.pc \in {"user", "sleep"} => SentMsgs' = due']_vars

\* a tick ended normally after its first delivery failed and a message for
\* another user was handed over afterwards
C10_Witness ==
  /\ poll.pc = "sleep"
  /\ Len(sent) >= 2
  /\ ~sent[1].ok
  /\ sent[2].msg.to # sent[1].msg.to
  /\ SentMsgs = due

\* the messages of seq addressed to user u, in order
RECURSIVE MsgsTo(_, _)
MsgsTo(seq, u) ==
  IF seq = <<>>
    THEN <<>>
    ELSE IF Head(seq).to = u
           THEN <<Head(seq)>> \o MsgsTo(Tail(seq), u)
           ELSE MsgsTo(Tail(seq), u)

IsPrefix(a, b) == Len(a) <= Len(b) /\ a = SubSeq(b, 1, Len(a))

\* C11: within a tick the messages handed to send_message are, in order, the
\* messages the tick decided on; among one user's messages the increase
\* message occurs at most once and only in first place; an alert is
\* registered at the tail of the user's list and the alerts before it keep
\* their places; and an evaluation adds one target message per alert it
\* triggers, in list (registration) order.
C11_TickOrder ==
  [][/\ IsPrefix(SentMsgs', due')
     /\ \A u \in Users :
          LET m == MsgsTo(due', u)
          IN \A k \in 1..Len(m) : m[k].kind = "increase" => k = 1
     /\ \A r \in DOMAIN heap :
          /\ Len(heap'[r].alerts) >= Len(heap[r].alerts)
          /\ \A i \in DOMAIN heap[r].alerts :
               heap'[r].alerts[i].target = heap[r].alerts[i].target
     /\ (poll.pc = "alerts_get" /\ poll'.pc # "alerts_get" /\ Has(poll.user_id))
          => LET old == heap[RecOf(poll.user_id)].alerts
                 new == heap'[RecOf(poll.user_id)].alerts
                 firing == {i \in DOMAIN old : ~old[i].triggered /\ new[i].triggered}
                 n == Len(due') - Len(due)
             IN /\ n = Cardinality(firing)
                /\ IsPrefix(due, due')
                /\ \E f \in [1..n -> firing] :
                     /\ \A j, k \in 1..n : j < k => f[j] < f[k]
                     /\ \A k \in 1..n :
                          due'[Len(due) + k]
                            = [to |-> poll.user_id, kind |-> "target",
                               price |-> poll.current_price,
                               target |-> old[f[k]].target]]_vars

\* one tick sent u1 the increase message, then the message of the alert
\* registered first (target 2.5), then that of the alert registered second
\* (target 1.5)
C11_Witness ==
  /\ poll.pc = "user"
  /\ Len(sent) = 3
  /\ \A k \in 1..3 : sent[k].msg.to = "u1"
  /\ sent[1].msg.kind = "increase"
  /\ sent[2].msg.kind = "target" /\ sent[2].msg.target = 5
  /\ sent[3].msg.kind = "target" /\ sent[3].msg.target = 3
  /\ Has("u1")
  /\ Len(Alerts("u1")) = 2
  /\ Alerts("u1")[1].target = 5
  /\ Alerts("u1")[2].target = 3

TrendLabels == {"strong_up", "slight_up", "strong_down", "slight_down", "stable"}

\* C12: /trend answers insufficient data exactly when the history holds
\* fewer than 2 samples at the call; otherwise get_price_trend reads the
\* newest sample, then the oldest retained one, and returns the label of the
\* percentage change between the two: above 5 strong up, above 0 up to 5
\* slight up, below -5 strong down, from -5 to below 0 slight down, 0 stable.
C12_TrendLabel ==
  [][\A h \in Workers :
       /\ Dispatched(h, "trend")
            => IF Len(price_history) < 2
                 THEN worker'[h].pc = "done" /\ worker'[h].ret = "insufficient"
                 ELSE worker'[h].pc = "trend_last"
       /\ (worker[h].pc = "trend_last" /\ Steps(h))
            => worker'[h].last_price = price_history[Len(price_history)]
       /\ (worker[h].pc = "trend_prev" /\ Steps(h))
            => LET last == worker[h].last_price
                   prev == price_history[1]
               IN /\ worker'[h].raised = "none"
                  /\ worker'[h].ret \in TrendLabels
                  /\ worker'[h].ret = "strong_up" <=> (last - prev) * 100 > 5 * prev
                  /\ worker'[h].ret = "slight_up"
                       <=> ((last - prev) * 100 > 0 /\ (last - prev) * 100 <= 5 * prev)
                  /\ worker'[h].ret = "strong_down" <=> (last - prev) * 100 < (-5) * prev
                  /\ worker'[h].ret = "slight_down"
                       <=> ((last - prev) * 100 < 0 /\ (last - prev) * 100 >= (-5) * prev)
                  /\ worker'[h].ret = "stable" <=> last = prev]_vars

\* C13: /stats answers that there is no data exactly when the history is
\* empty at the call; otherwise each of current, high, low, sum and count is
\* the newest sample, the maximum, the minimum, the sum and the length of
\* the history when it is read, and the figures reported satisfy
\* low <= current <= high and low <= sum / count <= high.
C13_StatsBounds ==
  [][\A h \in Workers :
       /\ Dispatched(h, "stats")
            => IF price_history = <<>>
                 THEN worker'[h].pc = "done" /\ worker'[h].ret = "no_data"
                 ELSE worker'[h].pc = "stats_current"
       /\ (worker[h].pc = "stats_current" /\ Steps(h))
            => worker'[h].stats.current = price_history[Len(price_history)]
       /\ (worker[h].pc = "stats_high" /\ Steps(h))
            => \A i \in 1..Len(price_history) : price_history[i] <= worker'[h].stats.high
       /\ (worker[h].pc = "stats_low" /\ Steps(h))
            => \A i \in 1..Len(price_history) : price_history[i] >= worker'[h].stats.low
       /\ (worker[h].pc = "stats_len" /\ Steps(h))
            => LET st == worker'[h].stats
               IN /\ st.low <= st.current /\ st.current <= st.high
                  /\ st.low * st.count <= st.sum
                  /\ st.sum <= st.high * st.count]_vars

\* record object r is the value of some key of the registry
Registered(r) == \E i \in 1..Len(tracking_users) : tracking_users[i].rec = r

\* C14: the poll loop hands send_message a message only for a user who has
\* a record at that moment, and changes a record object only while it is in
\* the registry; a user without a record whom the running tick still holds
\* in its snapshot is one whose stop_price_tracking has deleted the record
\* and returned True and who has not been registered again.
C14_NoActOnRemoved ==
  [][/\ Len(sent') = Len(sent) + 1 => Has(sent'[Len(sent')].msg.to)
     /\ (poll' # poll /\ heap' # heap)
          => \A r \in DOMAIN heap : heap'[r] # heap[r] => Registered(r)]_vars

\* the poll loop is in a tick whose fetch returned None
InFailedTick == poll.pc # "fetch" /\ poll.current_price = None

\* C15: a fetch that returns None takes the poll loop straight to its sleep;
\* the two steps of such a tick (the fetch, and the sleep back to the next
\* fetch) leave the history, the registry and every record with its
\* last_notification_price and its alerts as they were, and the tick decides
\* on no message and sends none.
C15_FailedFetchFrame ==
  [][/\ (poll.pc = "fetch" /\ poll'.pc # "fetch" /\ poll'.current_price = None)
          => /\ poll'.pc = "sleep"
             /\ UNCHANGED <<price_history, tracking_users, heap, fetched>>
             /\ due' = <<>> /\ sent' = <<>>
     /\ InFailedTick
          => /\ poll.pc = "sleep"
             /\ due = <<>> /\ sent = <<>>
             /\ poll' # poll
                  => /\ poll'.pc = "fetch"
                     /\ last_tick' = "fetch_failed"
                     /\ UNCHANGED <<price_history, tracking_users, heap, fetched>>
                     /\ due' = <<>> /\ sent' = <<>>]_vars

\* the second tick failed to fetch and ended: the sample of the first tick,
\* u1's record and its untriggered alert are as they were
C15_Witness ==
  /\ ticks = 2
  /\ poll.pc = "fetch"
  /\ last_tick = "fetch_failed"
  /\ price_history = <<3>>
  /\ Has("u1")
  /\ heap[RecOf("u1")].tracking
  /\ heap[RecOf("u1")].last_notification_price = 1
  /\ Len(Alerts("u1")) = 1
  /\ ~Alerts("u1")[1].triggered

\* the argument is a number greater than 0
Positive(a) == a.kind = "num" /\ a.val > 0

\* C16: a /setalert whose argument is not a number greater than 0 ends in
\* its first step with one reply, without a fetch and without a change to
\* the registry or to any record; and every alert of every record has a
\* target greater than 0.
C16_RejectedTarget ==
  [][/\ \A h \in Workers :
          (Dispatched(h, "setalert") /\ ~Positive(worker'[h].arg))
            => /\ worker'[h].pc = "done"
               /\ worker'[h].fetched = "no"
               /\ Len(worker'[h].replies) = 1
               /\ UNCHANGED <<tracking_users, heap>>
     /\ \A r \in DOMAIN heap' : \A i \in DOMAIN heap'[r].alerts :
          /\ heap'[r].alerts[i].target # NaN
          /\ heap'[r].alerts[i].target > 0]_vars

\* the kind of the reply worker h makes in this step
Replied(h, kind) ==
  /\ Len(worker'[h].replies) = Len(worker[h].replies) + 1
  /\ worker'[h].replies[Len(worker'[h].replies)].kind = kind

\* C17: /track replies "tracking started" in the step that stores the
\* user's record and in no other; it replies "already tracking" only if
\* start_price_tracking found the user present (and so fetched nothing), and
\* "couldn't start tracking" only if it found the user absent and its fetch
\* failed, whatever the handler's second fetch returns.
C17_TrackReply ==
  [][\A h \in Workers :
       /\ (worker[h].pc = "track_insert" /\ Steps(h))
            => /\ Replied(h, "started")
               /\ Len(heap') = Len(heap) + 1
               /\ \E i \in 1..Len(tracking_users') :
                    /\ tracking_users'[i].uid = worker[h].user
                    /\ tracking_users'[i].rec = Len(heap')
       /\ Replied(h, "started") => worker[h].pc = "track_insert"
       /\ Replied(h, "already")
            => (worker[h].cmd = "track" /\ worker[h].fetched = "no")
       /\ Replied(h, "could_not_start")
            => (worker[h].cmd = "track" /\ worker[h].fetched = "failed")]_vars

\* C18: a record is stored only under a key that is absent at the moment of
\* the store, so no record and no alert appended to it is ever replaced; and
\* when the only two commands issued are /track commands of the same user,
\* one on each worker, exactly one start_price_tracking has returned True
\* and exactly one record object was created.
C18_InsertOnce ==
  [][/\ \A h \in Workers :
          (worker[h].pc \in {"track_insert", "alert_insert"} /\ Steps(h))
            => ~Has(worker[h].user)
     /\ \A u \in Users :
          (/\ cmds' = 2
           /\ \A h \in Workers :
                /\ worker'[h].pc = "done"
                /\ worker'[h].cmd = "track"
                /\ worker'[h].user = u
                /\ worker'[h].fetched = "ok")
            => /\ Cardinality({h \in Workers : worker'[h].ret = "True"}) = 1
               /\ Len(heap') = 1]_vars

\* self.tracking_users[u]['last_notification_price']
LastNotified(u) == heap[RecOf(u)].last_notification_price

\* C19: while a user has a record, from one step to the next the
\* last_notification_price found under the user's key never decreases, and
\* it changes only in the poll loop's step that sends the user the increase
\* message, to the truncated price of that tick; no command handler changes
\* it.
C19_LastNotifiedMonotone ==
  [][\A u \in Users :
       (Has(u) /\ Has(u)')
         => /\ LastNotified(u)' >= LastNotified(u)
            /\ LastNotified(u)' # LastNotified(u)
                 => /\ poll.pc = "send_increase"
                    /\ poll' # poll
                    /\ poll.user_id = u
                    /\ LastNotified(u)' = poll.current_price \div Scale]_vars

====
